---- MODULE Spec2Model ----
(***************************************************************************)
(* getgist: the Gist class of getgist/__main__.py as a state machine.      *)
(*                                                                         *)
(* One run (a "session") is the construction of a Gist followed, when      *)
(* gist.info is truthy, by gist.save().  The session blocks at its three   *)
(* network requests (identity probe, gist listing, raw content) and at     *)
(* its two prompts (disambiguation, delete/backup).  An action runs the    *)
(* code from one of those places to the next, with the network outcome or  *)
(* the typed line as its input.                                            *)
(*                                                                         *)
(* A Python str is modelled as a sequence of at most one token: '' is the  *)
(* empty sequence, a non-empty text <<t>> carries its content t (for a     *)
(* JSON text, the parsed document).  A dict is a function.                 *)
(***************************************************************************)
EXTENDS Integers, Sequences, FiniteSets, TLC

\* ------------------------------------------------------------- bounds
MaxSessions == 3        \* runs over the same directory
MaxGists    == 3        \* gists in one listing
MaxPrompts  == 2        \* disambiguation prompts issued in one session

\* ------------------------------------------------------------- inputs
Users     == {"alice", "bob"}
FileNames == {"a", "b"}
EnvTokens == {"", "t1"}                 \* GETGIST_TOKEN: unset/empty, or set
Old       == <<"old">>                  \* content of a file found at start
Bodies    == {<< >>, <<"c1">>, <<"c2">>} \* bodies of a raw-content response
InitNames == {"a", "a.bkp", "a.bkp1", "b"}

api_url == "https://api.github.com"

\* Python's False, the falsy value of gist.info
False == << >>

\* The gists a listing is made of: G1 and G2 hold the file "a" under the same
\* description, G3 holds the file "b".
G1 == [id |-> "1", description |-> "v1", files |-> ("a" :> [raw_url |-> "u1"])]
G2 == [id |-> "2", description |-> "v1", files |-> ("a" :> [raw_url |-> "u2"])]
G3 == [id |-> "3", description |-> "v2", files |-> ("b" :> [raw_url |-> "u3"])]
GistPool == {G1, G2, G3}

Listings == UNION {[1..n -> GistPool] : n \in 0..MaxGists}

\* ------------------------------------------------------------- network
\* What urlopen does with one request: it returns a response (any 2xx
\* status), raises HTTPError (a 4xx/5xx status), or raises another error.
Response(status, body) ==
    [kind |-> "response", status |-> status, body |-> body, utf8 |-> TRUE]
\* a response whose bytes are not valid UTF-8
BadBytes(status) ==
    [kind |-> "response", status |-> status, body |-> << >>, utf8 |-> FALSE]
HTTPErr(status) ==
    [kind |-> "HTTPError", status |-> status, body |-> << >>, utf8 |-> TRUE]
OtherErr(kind) ==
    [kind |-> kind, status |-> 0, body |-> << >>, utf8 |-> TRUE]
NoNet == OtherErr("none")

Failures == {Response(204, << >>), HTTPErr(404), OtherErr("URLError"),
             OtherErr("timeout"), OtherErr("BadStatusLine"), BadBytes(200)}

IdentityNet == {Response(200, <<[login |-> u]>>) : u \in Users}
                 \cup {Response(200, << >>)} \cup Failures
ListingNet  == {Response(200, <<l>>) : l \in Listings}
                 \cup {Response(200, << >>)} \cup Failures
ContentNet  == {Response(200, b) : b \in Bodies} \cup Failures

Return(v) == [raised |-> FALSE, exc |-> "", value |-> v]
Raise(e)  == [raised |-> TRUE, exc |-> e, value |-> << >>]

\* bytes.decode('utf-8')
Decode(net) == IF net.utf8 THEN Return(net.body) ELSE Raise("UnicodeDecodeError")

\* Gist.curl, the request's outcome to its return value: only HTTPError is
\* caught; a response is decoded on status 200 and dropped otherwise.
Curl(net) ==
    IF net.kind = "HTTPError" THEN Return(<< >>)
    ELSE IF net.kind # "response" THEN Raise(net.kind)
    ELSE IF net.status = 200 THEN Decode(net)
    ELSE Return(<< >>)

\* Gist.curl, the headers of the request: the token is added to the mapping
\* it was given when the session is authenticated.
CurlHeaders(a, t, headers) ==
    IF a /\ "Authorization" \notin DOMAIN headers
    THEN headers @@ ("Authorization" :> ("token " \o t))
    ELSE headers

EmptyDict == [h \in {} |-> ""]

\* json.loads
JsonLoads(text) == IF text = << >> THEN Raise("ValueError") ELSE Return(text[1])

\* query_api as it would be if an empty answer were passed on without a word
QueryApiSilent(contents) ==
    [hint  |-> FALSE,
     gists |-> IF contents = << >> THEN << >> ELSE JsonLoads(contents).value]

\* Gist.query_api from what curl returned: an empty answer prints the hint
\* and stands for no gists, any other answer is parsed.
QueryApi(contents) ==
    IF contents = << >>
    THEN [hint |-> TRUE,  gists |-> << >>]
    ELSE [hint |-> FALSE, gists |-> JsonLoads(contents).value]

\* int(): the numerals of the integers near the valid range parse, every other
\* line raises ValueError.
Numbers  == -1 .. MaxGists + 1
Numerals == {ToString(n) : n \in Numbers}
ParseInt(s) ==
    IF s \in Numerals THEN Return(CHOOSE n \in Numbers : ToString(n) = s)
    ELSE Raise("ValueError")

\* lower as it would be if the answer were compared as typed
LowerAsTyped(s) == s

\* str.lower() on the lines typed at the delete prompt
Lower(s) == IF s = "Y" THEN "y" ELSE IF s = "N" THEN "n" ELSE s

NumberLines  == Numerals \cup {"x", ""}     \* typed at 'Type the number: '
ConfirmLines == {"y", "Y", "n", "N", ""}    \* typed at 'Delete existing ... ?'

\* the answer as it would be if assume_yes stood for 'n'
ConfirmNo(yes, line) == IF yes THEN "n" ELSE line

\* Gist.save, lines 85-88: the answer to 'Delete existing ... ?', which
\* assume_yes gives as 'y' without asking
Confirm(yes, line) == IF yes THEN "y" ELSE line

\* ------------------------------------------------------------- file system
\* The current directory: the names that exist, each with its content.
Remove(d, name) == [n \in DOMAIN d \ {name} |-> d[n]]

\* os.rename(src, dst)
Rename(d, src, dst) ==
    [n \in (DOMAIN d \ {src}) \cup {dst} |-> IF n = dst THEN d[src] ELSE d[n]]

\* open(path, 'w'): the file exists and is empty
OpenW(d, name) == [n \in DOMAIN d \cup {name} |-> IF n = name THEN << >> ELSE d[n]]

\* write as it would be if the contents never reached the file
WriteNothing(d, name, contents) == d

\* file_handler.write(contents) on the file just opened
WriteFile(d, name, contents) == [d EXCEPT ![name] = contents]

\* '{}.bkp'.format(file_name) and '{}.bkp{}'.format(file_name, count)
BkpName(f, count) ==
    IF count = 0 THEN f \o ".bkp" ELSE f \o ".bkp" \o ToString(count)

\* backup as it would be without its while loop
BackupNameUnchecked(d, f, count) == BkpName(f, count)

\* Gist.backup, the while loop: the first name of the series that does not exist
RECURSIVE BackupName(_, _, _)
BackupName(d, f, count) ==
    IF BkpName(f, count) \in DOMAIN d THEN BackupName(d, f, count + 1)
    ELSE BkpName(f, count)

\* backup as it would be if it kept one backup only, under the first name
BackupKeepingOne(d, f) ==
    LET older == {BkpName(f, i) : i \in 0..(MaxSessions + 2)}
    IN  Rename([n \in DOMAIN d \ older |-> d[n]], f, BkpName(f, 0))

\* Gist.backup
Backup(d, f) == Rename(d, f, BackupName(d, f, 0))

\* ------------------------------------------------------------- locator
\* filter_gists as it would be if it took every gist, whatever its files
FilterGistsAnyFile(gists, f) ==
    [i \in 1..Len(gists) |->
        [id          |-> gists[i].id,
         description |-> gists[i].description,
         raw_url     |-> gists[i].files[CHOOSE k \in DOMAIN gists[i].files : TRUE].raw_url]]

\* filter_gists as it would be if it yielded the matches last to first
FilterGistsReversed(gists, f) ==
    LET m == SelectSeq(gists, LAMBDA g : f \in DOMAIN g.files)
    IN  [i \in 1..Len(m) |->
            [id          |-> m[Len(m) + 1 - i].id,
             description |-> m[Len(m) + 1 - i].description,
             raw_url     |-> m[Len(m) + 1 - i].files[f].raw_url]]

\* Gist.filter_gists over the result of query_api
FilterGists(gists, f) ==
    LET m == SelectSeq(gists, LAMBDA g : f \in DOMAIN g.files)
    IN  [i \in 1..Len(m) |-> [id          |-> m[i].id,
                              description |-> m[i].description,
                              raw_url     |-> m[i].files[f].raw_url]]

\* list.index(x): the position (from 0) of the first element equal to x
Index(list, x) ==
    (CHOOSE i \in 1..Len(list) :
        list[i] = x /\ \A j \in 1..(i - 1) : list[j] # x) - 1

\* Gist.select_file, valid_indexes
ValidIndexes(list) == {Index(list, list[i]) : i \in 1..Len(list)}

\* select_file as it would be if only assume_yes returned the first match
ReturnsFirstOnYes(list, yes) == yes

\* Gist.select_file, line 207: the first match is returned without asking
ReturnsFirst(list, yes) == Len(list) = 1 \/ yes

\* run_getgist / run_getmy: save() is called when gist.info is truthy
RunGetgist(i) == IF i # False THEN "save" ELSE "done"

\* Gist.query_api, the URL of the listing
GistsUrl(u) == api_url \o "/users/" \o u \o "/gists"

\* ------------------------------------------------------------- state
VARIABLES
    dir,            \* the current directory: name -> content
    defaultHeaders, \* the default value of curl's headers parameter (one dict
                    \* per process, shared by every call that passes none)
    session,        \* sessions started so far
    pc,             \* where the session stands
    user, file_name, assume_yes,   \* Gist.config
    token, auth,                   \* Gist.authenticated
    files,          \* the candidates select_file is asking about
    info,           \* gist.info
    prompts,        \* 'Type the number: ' prompts issued in this session
    requests,       \* the requests of this session: [url, headers]
    exc,            \* the exception that ended the session, "" if none
    lastNet,        \* the outcome of the request the last step made, if any
    stdin,          \* the line the last step read from a prompt, "" if none
    dir0,           \* the directory when the session started
    backupLog,      \* the backups made so far: [file, name]
    allYes,         \* every session so far ran with assume_yes
    output          \* what the session printed of '[Hint] ...' and '[Error] No
                    \* file named ...': a set of "Hint", "Error"

vars == <<dir, defaultHeaders, session, pc, user, file_name, assume_yes, token,
          auth, files, info, prompts, requests, exc, lastNet, stdin,
          dir0, backupLog, allYes, output>>

InitDirs == UNION {[names -> {Old}] : names \in SUBSET InitNames}

Init ==
    /\ dir \in InitDirs
    /\ defaultHeaders = EmptyDict
    /\ session = 0
    /\ pc = "new"
    /\ user = "" /\ file_name = "" /\ assume_yes = FALSE
    /\ token = "" /\ auth = FALSE
    /\ files = << >> /\ info = False /\ prompts = 0
    /\ requests = << >> /\ exc = "" /\ lastNet = NoNet
    /\ stdin = ""
    /\ dir0 = dir
    /\ backupLog = << >>
    /\ allYes = TRUE
    /\ output = {}

Request(url, headers) == [url |-> url, headers |-> headers]

\* An exception no code catches ends the session.
Crash(e) ==
    /\ pc' = "raised"
    /\ exc' = e

\* authenticated as it would be if the token were trusted without a probe
AuthenticatedUnprobed(t) == "load_gist_info"

\* Gist.authenticated / validate_token, lines 121-122 and 140-141: a token is
\* validated against the identity endpoint, no token goes on to the listing
Authenticated(t) == IF t = "" THEN "load_gist_info" ELSE "validate_token"

\* Gist.__init__ to the first request: config() and, without a token, the
\* whole of authenticated().  newproc: the session runs in a new process.
Config(u, f, y, t, newproc) ==
    /\ pc \in {"new", "done", "raised"}
    /\ session < MaxSessions
    /\ (session = 0 => newproc)
    /\ session' = session + 1
    /\ user' = u /\ file_name' = f /\ assume_yes' = y
    /\ token' = t
    /\ auth' = FALSE
    /\ pc' = Authenticated(t)
    /\ defaultHeaders' = IF newproc THEN EmptyDict ELSE defaultHeaders
    /\ files' = << >> /\ info' = False /\ prompts' = 0
    /\ requests' = << >> /\ exc' = "" /\ lastNet' = NoNet
    /\ stdin' = ""
    /\ dir0' = dir
    /\ allYes' = (allYes /\ y)
    /\ output' = {}
    /\ UNCHANGED <<dir, backupLog>>

\* Gist.validate_token from the answer of the identity endpoint, and the rest
\* of authenticated().
ValidateToken(net) ==
    /\ pc = "validate_token"
    /\ LET headers  == "Authorization" :> ("token " \o token)
           sent     == CurlHeaders(auth, token, headers)
           r        == Curl(net)
           response == JsonLoads(r.value)
       IN  /\ requests' = Append(requests, Request(api_url \o "/user", sent))
           /\ lastNet' = net
           /\ IF r.raised THEN Crash(r.exc) /\ auth' = auth
              ELSE IF response.raised THEN Crash(response.exc) /\ auth' = auth
              ELSE /\ auth' = (response.value.login = user)
                   /\ pc' = "load_gist_info"
                   /\ exc' = exc
    /\ stdin' = ""
    /\ UNCHANGED <<dir, defaultHeaders, session, user, file_name, assume_yes,
                   token, files, info, prompts, dir0, backupLog, allYes,
                   output>>

\* Gist.load_gist_info from the answer of the listing endpoint: query_api,
\* filter_gists and select_file up to its prompt.
LoadGistInfo(net) ==
    /\ pc = "load_gist_info"
    /\ LET url      == GistsUrl(user)
           sent     == CurlHeaders(auth, token, defaultHeaders)
           r        == Curl(net)
           listed   == QueryApi(r.value)
           matching == FilterGists(listed.gists, file_name)
       IN  /\ requests' = Append(requests, Request(url, sent))
           /\ defaultHeaders' = sent
           /\ lastNet' = net
           /\ IF r.raised
              THEN Crash(r.exc) /\ UNCHANGED <<files, info, prompts, output>>
              ELSE /\ exc' = exc
                   /\ output' = (IF listed.hint THEN {"Hint"} ELSE {})
                            \cup (IF Len(matching) = 0 THEN {"Error"} ELSE {})
                   /\ IF Len(matching) = 0
                      THEN info' = False /\ pc' = RunGetgist(info')
                           /\ UNCHANGED <<files, prompts>>
                      ELSE IF ReturnsFirst(matching, assume_yes)
                      THEN info' = matching[1] /\ pc' = RunGetgist(info')
                           /\ UNCHANGED <<files, prompts>>
                      ELSE pc' = "select_file" /\ files' = matching
                           /\ prompts' = 1 /\ info' = info
    /\ stdin' = ""
    /\ UNCHANGED <<dir, session, user, file_name, assume_yes, token, auth,
                   dir0, backupLog, allYes>>

\* The nested calls of select_file the interpreter allows before it raises
\* RecursionError (sys.getrecursionlimit(), 1000 frames by default), here as
\* small as the bound on the prompts.
RecursionLimit == MaxPrompts

\* Gist.select_file from the line typed at 'Type the number: ': a line that
\* is no number, or a number that is no valid index, asks again by calling
\* select_file from within itself.
SelectFile(line) ==
    /\ pc = "select_file"
    /\ stdin' = line
    /\ LET n          == ParseInt(line)
           gist_index == n.value - 1
       IN  IF n.raised \/ gist_index \notin ValidIndexes(files)
           THEN IF prompts < RecursionLimit
                THEN /\ prompts' = prompts + 1
                     /\ UNCHANGED <<pc, info, exc>>
                ELSE /\ Crash("RecursionError")
                     /\ UNCHANGED <<info, prompts>>
           ELSE /\ info' = files[gist_index + 1]
                /\ pc' = RunGetgist(info')
                /\ UNCHANGED <<prompts, exc>>
    /\ lastNet' = NoNet
    /\ UNCHANGED <<dir, defaultHeaders, session, user, file_name, assume_yes,
                   token, auth, files, requests, dir0, backupLog, allYes, output>>

\* Gist.save to its request: the existing file is deleted or moved away, then
\* the file is opened for writing.  line: the answer to 'Delete existing ... ?',
\* read only when the file exists and assume_yes is off.
Save(line) ==
    /\ pc = "save"
    /\ LET exists  == file_name \in DOMAIN dir
           asked   == exists /\ ~assume_yes
           confirm == Confirm(assume_yes, line)
       IN  /\ (~asked => line = "")
           /\ stdin' = line
           /\ IF ~exists
              THEN dir' = OpenW(dir, file_name) /\ backupLog' = backupLog
              ELSE IF Lower(confirm) = "y"
              THEN dir' = OpenW(Remove(dir, file_name), file_name)
                   /\ backupLog' = backupLog
              ELSE dir' = OpenW(Backup(dir, file_name), file_name)
                   /\ backupLog' = Append(backupLog,
                          [file |-> file_name, name |-> BackupName(dir, file_name, 0)])
    /\ pc' = "curl"
    /\ lastNet' = NoNet
    /\ UNCHANGED <<defaultHeaders, session, user, file_name, assume_yes, token,
                   auth, files, info, prompts, requests, exc, dir0,
                   allYes, output>>

\* Gist.save from the answer to its request: the contents are written to the
\* open file; an exception closes the file as it is.
SaveContents(net) ==
    /\ pc = "curl"
    /\ LET sent == CurlHeaders(auth, token, defaultHeaders)
           r    == Curl(net)
       IN  /\ requests' = Append(requests, Request(info.raw_url, sent))
           /\ defaultHeaders' = sent
           /\ lastNet' = net
           /\ IF r.raised
              THEN Crash(r.exc) /\ dir' = dir
              ELSE /\ dir' = WriteFile(dir, file_name, r.value)
                   /\ pc' = "done"
                   /\ exc' = exc
    /\ stdin' = ""
    /\ UNCHANGED <<session, user, file_name, assume_yes, token, auth, files,
                   info, prompts, dir0, backupLog, allYes,
                   output>>

\* One run of the command.
Next ==
    \/ \E u \in Users, f \in FileNames, y \in BOOLEAN, t \in EnvTokens :
          session = 0 /\ Config(u, f, y, t, TRUE)
    \/ \E net \in IdentityNet : ValidateToken(net)
    \/ \E net \in ListingNet : LoadGistInfo(net)
    \/ \E line \in NumberLines : SelectFile(line)
    \/ \E line \in ConfirmLines : Save(line)
    \/ \E net \in ContentNet : SaveContents(net)

Spec == Init /\ [][Next]_vars

\* The command run again and again for the same user and file, in the same
\* directory, in the same process or in a new one; the listings are the few
\* that lead to each way through load_gist_info.
RepeatUser == "alice"
RepeatListings == {<<G1>>, <<G1, G2>>, <<G3>>}
RepeatFailures == {HTTPErr(404), OtherErr("URLError")}
RepeatIdentityNet ==
    {Response(200, <<[login |-> u]>>) : u \in Users} \cup RepeatFailures
RepeatListingNet ==
    {Response(200, <<l>>) : l \in RepeatListings} \cup RepeatFailures
RepeatContentNet == {Response(200, b) : b \in Bodies} \cup RepeatFailures

NextRepeat ==
    \/ \E f \in FileNames, y \in BOOLEAN, t \in EnvTokens, newproc \in BOOLEAN :
          /\ session > 0 => f = file_name
          /\ Config(RepeatUser, f, y, t, newproc)
    \/ \E net \in RepeatIdentityNet : ValidateToken(net)
    \/ \E net \in RepeatListingNet : LoadGistInfo(net)
    \/ \E line \in NumberLines : SelectFile(line)
    \/ \E line \in ConfirmLines : Save(line)
    \/ \E net \in RepeatContentNet : SaveContents(net)

SpecRepeat == Init /\ [][NextRepeat]_vars

\* ------------------------------------------------------------- claims
\* The URL of the session's last request, "" before the first.
LastUrl == IF requests = << >> THEN "" ELSE requests[Len(requests)].url

\* The request was answered with status 200 and a decodable body.
Ok200(net) == net.kind = "response" /\ net.status = 200 /\ net.utf8

\* The request failed in a way curl reports by returning '': an HTTP error
\* status, or a response whose status is not 200.
FailureSignal(net) ==
    net.kind = "HTTPError" \/ (net.kind = "response" /\ net.status # 200)

\* The errors of the transport that reach curl as an exception other than
\* HTTPError: unreachable host, timeout, malformed response.
TransportErrors == {"URLError", "timeout", "BadStatusLine"}

\* save() has made its request (and written or raised).
ContentFetched == info # False /\ LastUrl = info.raw_url

\* The listing endpoint has just answered with a list of gists.
Listed == LastUrl = GistsUrl(user) /\ Ok200(lastNet) /\ lastNet.body # << >>

\* The positions in the listing of the gists that hold the file f.
Holding(f) ==
    {i \in 1..Len(lastNet.body[1]) : f \in DOMAIN lastNet.body[1][i].files}

\* What filter_gists is to yield for the gist at position i of the listing.
Candidate(i, f) ==
    LET g == lastNet.body[1][i]
    IN  [id |-> g.id, description |-> g.description,
         raw_url |-> g.files[f].raw_url]

\* C1: when no local file exists at the target path and the content fetch
\* returns the empty-string failure signal, no file exists at the target path
\* after save.
C1_FailedFetchCreatesNoFile ==
    (ContentFetched /\ FailureSignal(lastNet) /\ file_name \notin DOMAIN dir0)
        => file_name \notin DOMAIN dir

\* C2: with a credential present, when the identity request fails and curl
\* returns '', the session is anonymous and goes on to the gist listing; it
\* does not end in an exception.
C2_FailedProbeIsAnonymous ==
    (token # "" /\ LastUrl = api_url \o "/user" /\ FailureSignal(lastNet))
        => (pc = "load_gist_info" /\ ~auth /\ exc = "")

\* C3: no failure of the transport (unreachable host, timeout, malformed
\* response) leaves curl as an exception and ends the session.
C3_NoTransportErrorEscapes ==
    lastNet.kind \in TransportErrors => ~(pc = "raised" /\ exc = lastNet.kind)

\* C4: when no gist of the listing has a file key equal to file_name, the
\* session ends with a falsy info, save() is not called (no content request
\* is made) and the directory is as it was when the session started.
C4_NoMatchNothingWritten ==
    (Listed /\ Holding(file_name) = {})
        => /\ pc = "done"
           /\ info = False
           /\ dir = dir0
           /\ \A i \in 1..Len(requests) :
                 requests[i].url \in {api_url \o "/user", GistsUrl(user)}

\* C4 witness: a listing of several gists, none holding the file, while a
\* local file of that name exists.
C4_Witness ==
    /\ Listed /\ Holding(file_name) = {}
    /\ Len(lastNet.body[1]) >= 2
    /\ file_name \in DOMAIN dir
    /\ pc = "done"

\* The names of the backup series of f that can exist here: those found at the
\* start and one more for each session.
Series(f) == {BkpName(f, i) : i \in 0..(MaxSessions + 2)}

\* The names the backups so far were given.
LoggedNames == {backupLog[k].name : k \in 1..Len(backupLog)}

\* The backups so far are named <name>.bkp, <name>.bkp1, ... in that order.
NamedInOrder ==
    \A k \in 1..Len(backupLog) :
        backupLog[k].name = BkpName(backupLog[k].file, k - 1)

\* C5 as stated: from any directory state, the K backups of a file are named
\* exactly <name>.bkp, <name>.bkp1, ..., <name>.bkp{K-1}, in that order.
C5_AnyDirectoryNamedInOrder == NamedInOrder

\* A backup has just been made: the name it took did not exist, it is the
\* first name of the series that did not, it now holds what the target held,
\* and every other file is as it was.
BackupTakesFirstFreeName ==
    backupLog' # backupLog =>
        LET b == backupLog'[Len(backupLog')]
        IN  /\ b.name \notin DOMAIN dir
            /\ \E c \in 0..(MaxSessions + 2) :
                  /\ b.name = BkpName(b.file, c)
                  /\ \A j \in 0..(c - 1) : BkpName(b.file, j) \in DOMAIN dir
            /\ b.name \in DOMAIN dir' /\ dir'[b.name] = dir[b.file]
            /\ \A n \in DOMAIN dir \ {b.file} :
                  n \in DOMAIN dir' /\ dir'[n] = dir[n]

\* C5 (amended): each backup takes the first name of the series <name>.bkp,
\* <name>.bkp1, ... that does not exist at selection time, and overwrites no
\* earlier backup or other file; when no name of the series existed before the
\* first backup, the K backups are named <name>.bkp ... <name>.bkp{K-1} in
\* that order.
C5_FirstFreeNameInOrder ==
    /\ [][BackupTakesFirstFreeName]_vars
    /\ []((Series(file_name) \cap DOMAIN dir) \subseteq LoggedNames
             => NamedInOrder)

\* C5 witness: three backups of the same file in a directory that had none.
C5_Witness ==
    /\ Len(backupLog) = 3
    /\ \A k \in 1..3 : backupLog[k].name = BkpName(file_name, k - 1)
    /\ (Series(file_name) \cap DOMAIN dir) = LoggedNames
    /\ pc = "done"

\* The line just typed is the numeral of a position k of the list shown.
TypedPosition(k) == k \in 1..Len(files) /\ ToString(k) = stdin'

\* C6: at the disambiguation prompt, a line that parses to an integer k with
\* 1 <= k <= N returns the k-th candidate in listing order; every other line
\* asks again and selects nothing; also when candidates are equal records.
C6_NumberSelectsKth ==
    [][pc = "select_file" =>
          IF \E k \in 1..Len(files) : TypedPosition(k)
          THEN /\ pc' = "save"
               /\ info' = files[CHOOSE k \in 1..Len(files) : TypedPosition(k)]
          ELSE /\ pc' = "select_file"
               /\ info' = info]_vars

\* The first position of the listing that holds the file f.
FirstHolding(f) == CHOOSE i \in Holding(f) : \A j \in Holding(f) : i <= j

\* C7: when exactly one gist of the listing holds the file, it is selected
\* and no prompt is issued, with assume_yes on or off.
C7_SingleCandidateNoPrompt ==
    (Listed /\ Cardinality(Holding(file_name)) = 1)
        => /\ pc = "save"
           /\ info = Candidate(FirstHolding(file_name), file_name)
           /\ prompts = 0

\* C7 witness: one gist among several holds the file and assume_yes is off.
C7_Witness ==
    /\ Listed /\ Cardinality(Holding(file_name)) = 1
    /\ Len(lastNet.body[1]) >= 2
    /\ ~assume_yes
    /\ pc = "save"

\* C8: when several gists of the listing hold the file and assume_yes is on,
\* the first of them in listing order is selected and no prompt is issued.
C8_AutoSelectTakesFirst ==
    (Listed /\ Cardinality(Holding(file_name)) > 1 /\ assume_yes)
        => /\ pc = "save"
           /\ info = Candidate(FirstHolding(file_name), file_name)
           /\ prompts = 0

\* C8 witness: the listing starts with a gist that does not hold the file,
\* and the gists that hold it are different records.
C8_Witness ==
    /\ Listed /\ Cardinality(Holding(file_name)) > 1 /\ assume_yes
    /\ 1 \notin Holding(file_name)
    /\ \E i \in Holding(file_name) :
          Candidate(i, file_name) # Candidate(FirstHolding(file_name), file_name)
    /\ pc = "save"

\* C9: after two or more runs in a row, all with assume_yes, the last with
\* successful fetches, the target path holds the content of the last fetch,
\* no run has made a backup, and the last run added no name but the target
\* and changed no other file.
C9_TwiceAutoSelect ==
    (session >= 2 /\ allYes /\ pc = "done" /\ ContentFetched /\ Ok200(lastNet))
        => /\ file_name \in DOMAIN dir /\ dir[file_name] = lastNet.body
           /\ backupLog = << >>
           /\ DOMAIN dir = DOMAIN dir0 \cup {file_name}
           /\ \A n \in DOMAIN dir0 \ {file_name} : dir[n] = dir0[n]

\* C9 witness: the second run replaces the content the first run fetched.
C9_Witness ==
    /\ session = 2 /\ allYes /\ pc = "done" /\ ContentFetched /\ Ok200(lastNet)
    /\ file_name \in DOMAIN dir0 /\ dir0[file_name] = <<"c1">>
    /\ dir[file_name] = <<"c2">>

\* C10: when the request for the resolved raw URL is answered with content C,
\* the file at the target path exists after save and holds exactly C, whether
\* there was no local file, one that was deleted or one that was backed up.
C10_SaveWritesFetchedContent ==
    (pc = "done" /\ ContentFetched /\ Ok200(lastNet))
        => file_name \in DOMAIN dir /\ dir[file_name] = lastNet.body

\* C10 witness: the existing file was backed up and the fetched content is
\* not empty.
C10_Witness ==
    /\ pc = "done" /\ ContentFetched /\ Ok200(lastNet)
    /\ lastNet.body = <<"c1">>
    /\ backupLog # << >>
    /\ dir[file_name] = <<"c1">>

\* The URL of the identity endpoint (validate_token).
UserUrl == api_url \o "/user"

\* The identity endpoint has just answered with the login of another user.
LoginMismatch ==
    /\ LastUrl = UserUrl /\ Ok200(lastNet) /\ lastNet.body # << >>
    /\ lastNet.body[1].login # user

\* The requests of the session that were made without explicit headers (the
\* listing and the content request) and carry an Authorization header.
Credentialed ==
    {i \in 1..Len(requests) :
        requests[i].url # UserUrl /\ "Authorization" \in DOMAIN requests[i].headers}

\* C11: without a credential, or when the identity endpoint returns another
\* login, the session is anonymous, goes on to the gist listing, and neither
\* its listing request nor its content request carries an Authorization
\* header; without a credential the identity endpoint is not called.
C11_AnonymousSendsNoCredential ==
    /\ (session >= 1 /\ token = "")
          => /\ ~auth
             /\ \A i \in 1..Len(requests) : requests[i].url # UserUrl
             /\ (pc = "load_gist_info" \/ requests # << >>)
    /\ LoginMismatch => (~auth /\ pc = "load_gist_info")
    /\ (session >= 1 /\ ~auth /\ pc # "validate_token") => Credentialed = {}

\* The place of a request in a session: identity probe, listing, content.
Rank(i) ==
    IF requests[i].url = UserUrl THEN 1
    ELSE IF requests[i].url = GistsUrl(user) THEN 2
    ELSE 3

\* The requests so far are in the order probe, listing, content, each made at
\* most once; the probe is made exactly when a credential exists and before
\* the listing can be asked for; a content fetch follows the listing.
RequestsInOrder ==
    /\ \A i, j \in 1..Len(requests) : i < j => Rank(i) < Rank(j)
    /\ \A i \in 1..Len(requests) :
          /\ Rank(i) = 1 => token # ""
          /\ Rank(i) = 2 => (token # "" => (i = 2 /\ Rank(1) = 1))
          /\ Rank(i) = 3 => (i > 1 /\ Rank(i - 1) = 2)
    /\ (token # "" /\ pc \in {"load_gist_info", "select_file", "save", "curl", "done"})
          => (requests # << >> /\ Rank(1) = 1)

\* Once the listing can be asked for, auth keeps its value to the session's end.
AuthSettled ==
    pc \in {"load_gist_info", "select_file", "save", "curl"} => auth' = auth

\* C12: in every session the authentication check runs once and is over
\* before the listing is requested, and the listing precedes the content
\* fetch: the requests are the identity probe (if a credential exists), the
\* listing, then at most one content fetch, and auth does not change after
\* the check.
C12_ProbeListingContent ==
    /\ []RequestsInOrder
    /\ [][AuthSettled]_vars

\* C12 witness: a session that made all three requests.
C12_Witness ==
    /\ pc = "done" /\ Len(requests) = 3
    /\ Rank(1) = 1 /\ Rank(2) = 2 /\ Rank(3) = 3
    /\ auth

\* The names whose file is not what it was when the session started: gone,
\* new, or of another content.
Changed ==
    {n \in DOMAIN dir \cup DOMAIN dir0 :
        n \notin DOMAIN dir \/ n \notin DOMAIN dir0 \/ dir[n] # dir0[n]}

\* save() stands at its request, having asked 'Delete existing ... ?'.
AskedToDelete == pc = "curl" /\ file_name \in DOMAIN dir0 /\ ~assume_yes

\* After an answer 'y' or 'Y' the old file is gone and nothing else differs;
\* after any other answer the old content is under the backup name, a name
\* that did not exist, and nothing else differs.  The target is open, empty.
DeletedOnlyOnYes ==
    AskedToDelete =>
        /\ file_name \in DOMAIN dir /\ dir[file_name] = << >>
        /\ IF stdin \in {"y", "Y"}
           THEN Changed \subseteq {file_name}
           ELSE /\ backupLog # << >>
                /\ LET b == backupLog[Len(backupLog)]
                   IN  /\ b.file = file_name
                       /\ b.name \notin DOMAIN dir0
                       /\ b.name \in DOMAIN dir /\ dir[b.name] = dir0[file_name]
                       /\ Changed \subseteq {file_name, b.name}

\* The content request of save() leaves every file but the target as it is
\* and, when it is answered with content, writes that content to the target.
FetchKeepsOthers ==
    pc = "curl" =>
        /\ \A n \in DOMAIN dir \ {file_name} : n \in DOMAIN dir' /\ dir'[n] = dir[n]
        /\ (pc' = "done" /\ Ok200(lastNet')) => dir'[file_name] = lastNet'.body

\* C13: when the target exists and assume_yes is off, the existing file is
\* deleted only on the answer 'y' in either case; on every other answer it is
\* moved to the backup name before the new content is written, so its content
\* is kept under that name while the target receives the fetched content.
C13_DeleteOnYesElseBackup ==
    /\ []DeletedOnlyOnYes
    /\ [][FetchKeepsOthers]_vars

\* C13 witness: the answer 'N' moved the old file to a backup name.
C13_Witness ==
    /\ AskedToDelete /\ stdin = "N"
    /\ backupLog # << >>
    /\ dir[backupLog[Len(backupLog)].name] = Old

\* curl returned '' for the request: the failure signal, or an empty body.
ReturnedEmpty(net) == ~Curl(net).raised /\ Curl(net).value = << >>

\* The listing endpoint has just been asked and curl returned ''.
ListingEmpty ==
    pc # "new" /\ LastUrl = GistsUrl(user) /\ lastNet # NoNet /\ ReturnedEmpty(lastNet)

\* C14: when the listing request returns '', the session takes it for a user
\* with no gists: it prints the hint about the user name and the not-found
\* error, ends with a falsy info and no exception, makes no content request
\* and leaves the directory as it was.
C14_EmptyListingIsNoGists ==
    ListingEmpty
        => /\ output = {"Hint", "Error"}
           /\ pc = "done" /\ info = False /\ exc = ""
           /\ dir = dir0
           /\ \A i \in 1..Len(requests) : requests[i].url \in {UserUrl, GistsUrl(user)}

\* C14 witness: the listing request failed with an HTTP error while a local
\* file of that name exists.
C14_Witness ==
    /\ ListingEmpty /\ FailureSignal(lastNet)
    /\ "Hint" \in output
    /\ file_name \in DOMAIN dir

\* The line just typed is no numeral of a position of the list shown.
TypedInvalid == \A k \in 1..Len(files) : ~TypedPosition(k)

\* C15: the disambiguation has no retry limit: after an invalid line, however
\* many came before, the prompt is issued again with nothing selected and the
\* session still running, so that a later valid line can be accepted.
C15_InvalidAlwaysAsksAgain ==
    [][(pc = "select_file" /\ TypedInvalid)
          => (pc' = "select_file" /\ prompts' = prompts + 1 /\ exc' = "")]_vars

\* The entries other than the target that the session has changed.
ChangedBesideTarget == Changed \ {file_name}

\* C16: one save() changes at most two entries of the directory: the target,
\* and one backup name that did not exist before; every other file, the
\* backups of earlier runs among them, keeps its name and content.
C16_SaveChangesTargetAndOneBackup ==
    /\ Cardinality(ChangedBesideTarget) <= 1
    /\ ChangedBesideTarget \cap DOMAIN dir0 = {}
    /\ \A n \in ChangedBesideTarget :
          backupLog # << >> /\ n = backupLog[Len(backupLog)].name

\* C16 witness: a later run made a second backup and wrote new content while
\* the backup of the first run stayed as it was.
C16_Witness ==
    /\ session >= 2 /\ pc = "done" /\ Len(backupLog) = 2
    /\ backupLog[1].name \in DOMAIN dir0
    /\ dir[backupLog[1].name] = dir0[backupLog[1].name]
    /\ Changed = {file_name, backupLog[2].name}
    /\ dir[file_name] # << >>

\* save() has returned after a content request that curl answered with the
\* failure signal, in a session that found a local file at the target.
FetchFailedOverLocalFile ==
    /\ pc = "done" /\ ContentFetched /\ FailureSignal(lastNet)
    /\ file_name \in DOMAIN dir0

\* C17: when the content request fails during save() and a local file was at
\* the target, the content of that file is not lost: it is still at the target
\* or under a backup name made by this save().
C17_FailedFetchKeepsOldContent ==
    FetchFailedOverLocalFile
        => \E n \in DOMAIN dir :
              /\ dir[n] = dir0[file_name]
              /\ n = file_name \/ n \notin DOMAIN dir0

\* C18: in any sequence of sessions of one process, a request made without
\* explicit headers carries an Authorization header only when its own session
\* is authenticated, and then the header holds that session's token: what an
\* earlier session put into the default headers of curl reaches no later one.
C18_CredentialStaysInItsSession ==
    \A i \in Credentialed :
        /\ auth
        /\ requests[i].headers["Authorization"] = "token " \o token

====
